---- MODULE Spec2Model ----
(***************************************************************************)
(* State-machine model of the icon finder task pane (taskpane.ts):         *)
(* debounced search dispatch, the single-flight search request, the        *)
(* request/response error mapping of StreamlineAPIService.makeRequest,    *)
(* the panels/labels the search writes, and insertStreamlineIcon: the      *)
(* download of an icon, the two clipboard writes and the toasts; and of    *)
(* the proxy in front of the catalog (server.js, webpack devServer.proxy). *)
(*                                                                         *)
(* Spec and FairSpec are the search; ClickSpec is the insertion flow;      *)
(* PaneSpec runs both side by side on one text, one tile and one outcome   *)
(* of each kind of settlement; ProxySpec is the proxy forwarding the       *)
(* requests of the task pane and of other clients.                         *)
(*                                                                         *)
(* Strings that the code inspects or assembles (error messages, URLs, the  *)
(* input text) are sequences: the input text is a sequence of characters,  *)
(* a message or a URL is a sequence of tokens, and String.includes is a    *)
(* contiguous-subsequence test on them. A character that a TLA+ string     *)
(* cannot hold is written as the name of its code point: "U+00A0" is the   *)
(* no-break space, "U+000B" the vertical tab, "U+0060" the grave accent.   *)
(***************************************************************************)
EXTENDS Integers, Sequences, FiniteSets, TLC

VARIABLES
    text,            \* searchInput.value
    timers,          \* pending window.setTimeout callbacks: [id, remaining]
    nextTimer,       \* the handle the next setTimeout call returns
    searchTimeout,   \* let searchTimeout (0 models undefined)
    isLoading,       \* let isLoading
    currentPage,     \* let currentPage
    currentIcons,    \* let currentIcons
    network,         \* search requests issued by fetch and not yet settled
    nextReq,         \* number of the next request fetch issues
    iconsGridHTML,   \* #icons-grid innerHTML: the panel shown
    iconsGridDisplay,\* #icons-grid style.display
    spinnerDisplay,  \* #loading-spinner style.display
    resultsCount,    \* #results-count textContent
    quiet,           \* history: milliseconds of debounce wait since the last input event
    settleInfo,      \* history: what happened since the last settlement
    lastOp,          \* history: the handler that ran last and what it saw
    clicks,          \* calls of insertStreamlineIcon: [id, hash, name, pc, svg, shown]
    nextClick,       \* number of the next call of insertStreamlineIcon
    clipboard,       \* the system clipboard: the representations last written
    toasts,          \* notifications in document.body, each with its removal timer
    styles,          \* style elements in document.head, by the toast that added them
    nextToast,       \* number of the next notification element
    lastClick,       \* history: the step of insertStreamlineIcon that ran last
    proxied,         \* history: the request the proxy forwarded last, as received and as sent
    locale           \* the default locale of the host running the task pane

vars == <<text, timers, nextTimer, searchTimeout, isLoading, currentPage,
          currentIcons, network, nextReq, iconsGridHTML, iconsGridDisplay,
          spinnerDisplay, resultsCount, quiet, settleInfo, lastOp,
          clicks, nextClick, clipboard, toasts, styles, nextToast, lastClick,
          proxied, locale>>


\* what performSearch and its continuation may write
searchVars == <<isLoading, currentPage, currentIcons, network, nextReq,
                iconsGridHTML, iconsGridDisplay, spinnerDisplay, resultsCount>>

-----------------------------------------------------------------------------
(* Bounds of the model *)

\* debounce timers (setTimeout calls of the input listener) explored
MaxTimers == 2
\* search requests explored
MaxRequests == 2
\* milliseconds one Tick lets pass at most
Quantum == 250
\* milliseconds one Tick lets pass at most while toasts are shown
ToastQuantum == 2000
\* calls of insertStreamlineIcon explored
MaxClicks == 2

(* Program constants *)

DebounceMs == 500
SuccessToastMs == 3000
ErrorToastMs == 4000
PerPage == 100
PageSize == 100

\* the code units String.prototype.trim strips (WhiteSpace and LineTerminator of
\* ECMAScript): tab, line feed, vertical tab, form feed, carriage return, space,
\* no-break space, the Unicode space separators, the line and paragraph separators
\* and the byte order mark
Whitespace ==
    {"\t", "\n", "U+000B", "\f", "\r", " ", "U+00A0", "U+1680",
     "U+2000", "U+2001", "U+2002", "U+2003", "U+2004", "U+2005", "U+2006",
     "U+2007", "U+2008", "U+2009", "U+200A", "U+2028", "U+2029", "U+202F",
     "U+205F", "U+3000", "U+FEFF"}

\* the input texts explored: empty, whitespace only (a space, a tab), plain, with
\* leading and trailing whitespace (a space, a tab), with whitespace inside and a
\* character the URL serialisation escapes
Texts ==
    {<<>>, <<" ">>, <<"\t">>, <<"a">>, <<" ", "a", "\t">>, <<"a", " ", "&">>}

-----------------------------------------------------------------------------
(* String helpers *)

RECURSIVE TrimStart(_)
TrimStart(s) ==
    IF s = <<>> THEN <<>>
    ELSE IF Head(s) \in Whitespace THEN TrimStart(Tail(s)) ELSE s

RECURSIVE TrimEnd(_)
TrimEnd(s) ==
    IF s = <<>> THEN <<>>
    ELSE IF s[Len(s)] \in Whitespace THEN TrimEnd(SubSeq(s, 1, Len(s) - 1)) ELSE s

\* mutant of Trim: the text is used as typed
TrimNone(s) == s

\* String.prototype.trim
Trim(s) == TrimEnd(TrimStart(s))

\* String.prototype.includes on token sequences: pat occurs contiguously in s
Includes(s, pat) ==
    \E i \in 1..(Len(s) - Len(pat) + 1) :
        \A j \in 1..Len(pat) : s[i + j - 1] = pat[j]

\* application/x-www-form-urlencoded serialisation of a query value
\* (URLSearchParams): a space becomes "+", every code unit other than the ASCII
\* letters and digits and * - . _ becomes the %XX escapes of its UTF-8 bytes.
\* PercentEncoded holds the printable ASCII characters that are escaped, the
\* whitespace control characters and the code points the model names (U+XXXX).
PercentEncoded ==
    (" " :> "+") @@ ("\t" :> "%09") @@ ("\n" :> "%0A") @@ ("U+000B" :> "%0B") @@
    ("\f" :> "%0C") @@ ("\r" :> "%0D") @@ ("!" :> "%21") @@ ("\"" :> "%22") @@
    ("#" :> "%23") @@ ("$" :> "%24") @@ ("%" :> "%25") @@ ("&" :> "%26") @@
    ("'" :> "%27") @@ ("(" :> "%28") @@ (")" :> "%29") @@ ("+" :> "%2B") @@
    ("," :> "%2C") @@ ("/" :> "%2F") @@ (":" :> "%3A") @@ (";" :> "%3B") @@
    ("<" :> "%3C") @@ ("=" :> "%3D") @@ (">" :> "%3E") @@ ("?" :> "%3F") @@
    ("@" :> "%40") @@ ("[" :> "%5B") @@ ("\\" :> "%5C") @@ ("]" :> "%5D") @@
    ("^" :> "%5E") @@ ("U+0060" :> "%60") @@ ("{" :> "%7B") @@ ("|" :> "%7C") @@
    ("}" :> "%7D") @@ ("~" :> "%7E") @@ ("U+00A0" :> "%C2%A0") @@
    ("U+00E9" :> "%C3%A9") @@ ("U+1680" :> "%E1%9A%80") @@ ("U+2000" :> "%E2%80%80") @@
    ("U+2001" :> "%E2%80%81") @@ ("U+2002" :> "%E2%80%82") @@
    ("U+2003" :> "%E2%80%83") @@ ("U+2004" :> "%E2%80%84") @@
    ("U+2005" :> "%E2%80%85") @@ ("U+2006" :> "%E2%80%86") @@
    ("U+2007" :> "%E2%80%87") @@ ("U+2008" :> "%E2%80%88") @@
    ("U+2009" :> "%E2%80%89") @@ ("U+200A" :> "%E2%80%8A") @@
    ("U+2028" :> "%E2%80%A8") @@ ("U+2029" :> "%E2%80%A9") @@
    ("U+202F" :> "%E2%80%AF") @@ ("U+205F" :> "%E2%81%9F") @@
    ("U+20AC" :> "%E2%82%AC") @@ ("U+3000" :> "%E3%80%80") @@ ("U+FEFF" :> "%EF%BB%BF")

\* a token outside the table is a letter, a digit, one of * - . _ or a run of them
EncodeChar(c) == IF c \in DOMAIN PercentEncoded THEN PercentEncoded[c] ELSE c
Encode(s) == [i \in 1..Len(s) |-> EncodeChar(s[i])]

-----------------------------------------------------------------------------
(* StreamlineAPIService: request construction *)

BaseUrl == "/api/streamline"
Origin == "https://localhost:3000"     \* window.location.origin
Family == "streamline-light"

\* Object.entries(params).forEach: only truthy (non-empty) values are appended
RECURSIVE AppendParams(_)
AppendParams(params) ==
    IF params = <<>> THEN <<>>
    ELSE IF Head(params).value # <<>>
         THEN <<Head(params)>> \o AppendParams(Tail(params))
         ELSE AppendParams(Tail(params))

\* makeRequest: new URL(`${baseUrl}${endpoint}`, origin) plus the search params
MakeRequestUrl(endpoint, params) ==
    [origin |-> Origin, path |-> <<BaseUrl>> \o endpoint,
     search |-> AppendParams(params)]

RECURSIVE SearchToString(_, _)
SearchToString(search, first) ==
    IF search = <<>> THEN <<>>
    ELSE <<IF first THEN "?" ELSE "&", Head(search).key, "=">>
         \o Encode(Head(search).value)
         \o SearchToString(Tail(search), FALSE)

\* url.toString()
UrlToString(url) == <<url.origin>> \o url.path \o SearchToString(url.search, TRUE)

\* searchFamily: page and per_page always, query only when non-empty
SearchFamilyParams(query, page, perPage) ==
    <<[key |-> "page", value |-> <<ToString(page)>>],
      [key |-> "per_page", value |-> <<ToString(perPage)>>]>>
    \o (IF query # <<>> THEN <<[key |-> "query", value |-> query]>> ELSE <<>>)

SearchFamilyUrl(familySlug, query, page, perPage) ==
    MakeRequestUrl(<<"/search/family/", familySlug>>,
                   SearchFamilyParams(query, page, perPage))

\* the fetch call of makeRequest: method, headers and URL
SearchRequest(id, url) ==
    [id |-> id, url |-> url, method |-> "GET",
     headers |-> {[name |-> "accept", value |-> "application/json"]},
     stage |-> "fetch"]

-----------------------------------------------------------------------------
(* StreamlineAPIService: what a request can settle with *)

\* responses of the catalog as fetch delivers them
Responses ==
    {[status |-> 200, statusText |-> <<"OK">>],
     [status |-> 401, statusText |-> <<"Unauthorized">>],
     [status |-> 429, statusText |-> <<"Too", "Many", "Requests">>],
     [status |-> 404, statusText |-> <<"Not", "Found">>],
     [status |-> 500, statusText |-> <<>>]}

\* response.ok
Ok(response) == response.status >= 200 /\ response.status <= 299

\* rejections of fetch (transport failures), by browser
TransportErrors ==
    {[name |-> "TypeError", message |-> <<"Failed", "to", "fetch">>],
     [name |-> "TypeError",
      message |-> <<"NetworkError", "when", "attempting", "to", "fetch", "resource.">>],
     [name |-> "TypeError", message |-> <<"Load", "failed">>]}

\* rejections of response.json()
JsonErrors ==
    {[name |-> "SyntaxError", message |-> <<"Unexpected", "end", "of", "JSON", "input">>],
     [name |-> "SyntaxError",
      message |-> <<"Unexpected", "token", "fetch", "is", "not", "valid", "JSON">>],
     [name |-> "TypeError", message |-> <<"network", "error">>]}

\* mutant of StatusError: no branch for 429
StatusErrorNo429(response) ==
    IF response.status = 401
    THEN [name |-> "Error",
          message |-> <<"Invalid", "API", "key", ".", "Please", "check", "your",
                        "Streamline", "API", "credentials.">>]
    ELSE [name |-> "Error",
          message |-> <<"API", "request", "failed:", ToString(response.status)>>
                      \o response.statusText]

\* the errors makeRequest throws for a response that is not ok
StatusError(response) ==
    IF response.status = 401
    THEN [name |-> "Error",
          message |-> <<"Invalid", "API", "key", ".", "Please", "check", "your",
                        "Streamline", "API", "credentials.">>]
    ELSE IF response.status = 429
    THEN [name |-> "Error",
          message |-> <<"Rate", "limit", "exceeded.", "Please", "wait", "a", "moment",
                        "before", "searching", "again.">>]
    ELSE [name |-> "Error",
          message |-> <<"API", "request", "failed:", ToString(response.status)>>
                      \o response.statusText]

NetworkErrorPrefix ==
    <<"CORS/Network", "error:", "The", "Streamline", "API", "is", "blocking",
      "requests", "from", "Office", "Add-ins.", "This", "is", "a", "common",
      "issue", "where", "the", "API", "server", "doesn't", "allow",
      "cross-origin", "requests", "from", "Office", "domains.", "URL",
      "attempted:">>

\* the message tests of the catch block of makeRequest
IndicatesNetwork(message) ==
    \/ Includes(message, <<"fetch">>)
    \/ Includes(message, <<"NetworkError">>)
    \/ Includes(message, <<"Failed", "to", "fetch">>)

\* catch (error) of makeRequest: what it throws on for what was thrown in the try
MakeRequestCatch(error, url) ==
    IF error.name = "TypeError" /\ IndicatesNetwork(error.message)
    THEN [name |-> "Error", message |-> NetworkErrorPrefix \o UrlToString(url)]
    ELSE error

-----------------------------------------------------------------------------
(* The catalog's answers *)

Icon1 ==
    [hash |-> "h1", name |-> "Arrow Right", imagePreviewUrl |-> "preview1",
     familySlug |-> "streamline-light", familyName |-> "Streamline Light",
     categoryName |-> "Arrows"]
Icon2 ==
    [hash |-> "h2", name |-> "Home", imagePreviewUrl |-> "preview2",
     familySlug |-> "streamline-light", familyName |-> "Streamline Light",
     categoryName |-> ""]

NoPagination == [total |-> -1, offset |-> -1]    \* pagination absent from the body

\* bodies response.json() resolves with: shape "search" is a StreamlineSearchResponse,
\* "noPagination" lacks pagination, "noResults" lacks results
JsonBodies ==
    {[shape |-> "search", results |-> <<>>, pagination |-> [total |-> 0, offset |-> 0]],
     [shape |-> "search", results |-> <<Icon1>>, pagination |-> [total |-> 1, offset |-> 0]],
     [shape |-> "search", results |-> <<Icon1, Icon2>>,
      pagination |-> [total |-> 250, offset |-> 0]],
     [shape |-> "search", results |-> <<Icon2>>,
      pagination |-> [total |-> 1234, offset |-> 200]],
     [shape |-> "search", results |-> <<Icon1, Icon2>>,
      pagination |-> [total |-> 1234567, offset |-> 100]],
     [shape |-> "noPagination", results |-> <<Icon1>>, pagination |-> NoPagination],
     [shape |-> "noResults", results |-> <<>>, pagination |-> NoPagination]}

\* the TypeError of reading a property of undefined in performSearch
UndefinedRead(property) ==
    [name |-> "TypeError",
     message |-> <<"Cannot", "read", "properties", "of", "undefined", "(reading",
                   property, ")">>]

NoError == [name |-> "none", message |-> <<>>]

-----------------------------------------------------------------------------
(* Rendering *)

\* streamlineIcon => Icon of performSearch
ToIcon(si) ==
    [hash |-> si.hash, name |-> si.name, family |-> si.familySlug,
     category |-> IF si.categoryName # "" THEN si.categoryName ELSE si.familyName,
     tags |-> <<>>, svgUrl |-> si.imagePreviewUrl]

MapIcons(results) == [i \in 1..Len(results) |-> ToIcon(results[i])]

Panel(kind, message, tiles) == [kind |-> kind, message |-> message, tiles |-> tiles]

\* showApiKeyMessage: the idle prompt
ShowApiKeyMessage == Panel("prompt", <<"Type a search term to find icons">>, <<>>)

\* displayIcons
DisplayIcons(icons) ==
    IF Len(icons) = 0
    THEN Panel("empty", <<"No icons found">>, <<>>)
    ELSE Panel("grid", <<>>,
               [i \in 1..Len(icons) |->
                   [hash |-> icons[i].hash, name |-> icons[i].name,
                    img |-> icons[i].svgUrl]])

\* showErrorMessage
ShowErrorMessage(message) == Panel("error", message, <<>>)

\* error.message || "Failed to search icons. Please try again."
SearchErrorText(error) ==
    IF error.message # <<>> THEN error.message
    ELSE <<"Failed to search icons. Please try again.">>

Digit(d) == ToString(d)

RECURSIVE Digits(_)
Digits(n) == IF n < 10 THEN <<Digit(n)>> ELSE Digits(n \div 10) \o <<Digit(n % 10)>>

\* the three digits of a group after the first
Group3(k) == <<Digit(k \div 100), Digit((k \div 10) % 10), Digit(k % 10)>>

\* the two digits of a group after the first
Group2(k) == <<Digit(k \div 10), Digit(k % 10)>>

\* the default locales explored: they differ in the separator of the digit groups
\* (a comma, a period, the narrow no-break space U+202F), in the size of the groups
\* (en-IN: three digits, then twos) and in where grouping starts (es-ES: from five
\* digits on)
Locales == {"en-US", "de-DE", "fr-FR", "en-IN", "es-ES"}

GroupSeparator(l) ==
    CASE l \in {"en-US", "en-IN"} -> ","
      [] l \in {"de-DE", "es-ES"} -> "."
      [] l = "fr-FR" -> "U+202F"

\* the digits there must be before the first separator for a number to be grouped
MinimumGroupingDigits(l) == IF l = "es-ES" THEN 2 ELSE 1

\* digits in groups of size 3 (thousand = 1000) or 2 (thousand = 100)
RECURSIVE Grouped(_, _, _)
Grouped(n, thousand, sep) ==
    IF n < thousand THEN Digits(n)
    ELSE Grouped(n \div thousand, thousand, sep) \o <<sep>>
         \o (IF thousand = 1000 THEN Group3(n % 1000) ELSE Group2(n % 100))

\* Intl number formatting of a non-negative integer in locale l
FormatNumber(n, l) ==
    IF n < 1000 \/ (MinimumGroupingDigits(l) = 2 /\ n < 10000) THEN Digits(n)
    ELSE IF l = "en-IN"
    THEN Grouped(n \div 1000, 100, GroupSeparator(l)) \o <<GroupSeparator(l)>>
         \o Group3(n % 1000)
    ELSE Grouped(n, 1000, GroupSeparator(l))

\* Number.prototype.toLocaleString() without arguments: the default locale
ToLocaleString(n) == FormatNumber(n, locale)

\* Math.floor(offset / 100) + 1 and Math.ceil(total / 100) of performSearch
PageOf(offset) == (offset \div PageSize) + 1

\* mutant of TotalPagesOf: the quotient is rounded down
TotalPagesFloor(total) == total \div PageSize

TotalPagesOf(total) == (total + PageSize - 1) \div PageSize

\* updateResultsCount; an absent argument is <<>> (customMessage) or 0 (page)
UpdateResultsCount(count, customMessage, page, totalPages) ==
    IF customMessage # <<>> THEN customMessage
    ELSE IF count = 0 THEN <<"No icons found">>
    ELSE IF count = 1 THEN <<"1 icon found">>
    ELSE ToLocaleString(count) \o <<" icons found">>
         \o (IF page # 0 /\ totalPages # 0
             THEN <<" (Page ", ToString(page), " of ", ToString(totalPages), ")">>
             ELSE <<>>)

-----------------------------------------------------------------------------
(* Timers *)

\* mutant of ClearTimeout: nothing is cancelled
ClearTimeoutNone(ts, handle) == ts

\* clearTimeout(handle): a handle that names no pending timer clears nothing
ClearTimeout(ts, handle) == {t \in ts : t.id # handle}

\* mutant of SetTimeout: the delay is dropped
SetTimeoutNoDelay(ts, id, delay) == ts \cup {[id |-> id, remaining |-> 0]}

\* window.setTimeout(callback, delay), returning handle id
SetTimeout(ts, id, delay) == ts \cup {[id |-> id, remaining |-> delay]}

-----------------------------------------------------------------------------
(* History record of the handler that ran last *)

\* the number of the request this step issued, 0 when it issued none
IssuedNow == IF nextReq' > nextReq THEN nextReq ELSE 0

\* op: the handler; wasLoading, hadTimer: isLoading and "a timer is pending" when it
\* began; issued: the request it issued; status, url: the response status and the URL
\* of the request it settled; thrown: what was thrown inside makeRequest's try;
\* caught: what performSearch's catch received; pagination: the pagination of the
\* body a successful search received
Op(op, wasLoading, hadTimer, issued, status, url, thrown, caught) ==
    [op |-> op, wasLoading |-> wasLoading, hadTimer |-> hadTimer,
     issued |-> issued, status |-> status, url |-> url, thrown |-> thrown,
     caught |-> caught, pagination |-> NoPagination]

NoUrl == [origin |-> "", path |-> <<>>, search |-> <<>>]

\* a handler that settles nothing and issues nothing
Plain(op) == Op(op, isLoading, timers # {}, 0, 0, NoUrl, NoError, NoError)

\* a dispatching handler (timer callback, Enter)
Dispatch(op) == Op(op, isLoading, timers # {}, IssuedNow, 0, NoUrl, NoError, NoError)

\* a handler that settles req
Settling(op, req, status, thrown, caught) ==
    Op(op, isLoading, timers # {}, 0, status, req.url, thrown, caught)

\* settleInfo after a settlement, and after an input event or an Enter press
Settled == IF timers = {} THEN "settledIdle" ELSE "settledTimer"
UserActed == IF settleInfo = "never" THEN "never" ELSE "userActed"

\* the clipboard before anything was written: no representation
NoClipboard == {}

\* what a step of insertStreamlineIcon did: the call it belongs to, the status it
\* saw, the markup it held, what it wrote, the error it caught, the toast it showed
ClickOp(op, click, name, status, svg, written, thrown, toast) ==
    [op |-> op, click |-> click, name |-> name, status |-> status, svg |-> svg,
     written |-> written, thrown |-> thrown, toast |-> toast,
     wasLoading |-> isLoading, others |-> Cardinality({c \in clicks : c.id # click}),
     kind |-> "", age |-> 0]

\* the last step was not a step of insertStreamlineIcon
NoClick == [op |-> "none", click |-> 0, name |-> "", status |-> 0, svg |-> "",
            written |-> NoClipboard, thrown |-> NoError, toast |-> 0,
            wasLoading |-> FALSE, others |-> 0, kind |-> "", age |-> 0]

\* the proxy has forwarded nothing yet
NoProxy == [req |-> [method |-> "", url |-> <<>>, headers |-> {}],
            proxyReq |-> [method |-> "", url |-> <<>>, headers |-> {}],
            apiKey |-> ""]

\* a step of the search leaves the insertion flow and the toasts alone
NoClickStep ==
    /\ lastClick' = NoClick
    /\ UNCHANGED <<clicks, nextClick, clipboard, toasts, styles, nextToast, proxied, locale>>

\* a step of the insertion flow leaves the search alone
NoSearchStep ==
    /\ lastOp' = Plain("click")
    /\ UNCHANGED <<text, timers, nextTimer, searchTimeout, searchVars, quiet,
                   settleInfo, proxied, locale>>


-----------------------------------------------------------------------------
(* Init: the state after Office.onReady ran initializeIconFinder *)

Init ==
    /\ text = <<>>
    /\ timers = {}
    /\ nextTimer = 1
    /\ searchTimeout = 0
    /\ isLoading = FALSE
    /\ currentPage = 1
    /\ currentIcons = <<>>
    /\ network = {}
    /\ nextReq = 1
    /\ iconsGridHTML = ShowApiKeyMessage
    /\ iconsGridDisplay = "initial"
    /\ spinnerDisplay = "initial"
    /\ resultsCount = UpdateResultsCount(0, <<>>, 0, 0)
    /\ quiet = 0
    /\ settleInfo = "never"
    /\ lastOp = Op("init", FALSE, FALSE, 0, 0, NoUrl, NoError, NoError)
    /\ clicks = {}
    /\ nextClick = 1
    /\ clipboard = NoClipboard
    /\ toasts = {}
    /\ styles = {}
    /\ nextToast = 1
    /\ lastClick = NoClick
    /\ proxied = NoProxy
    /\ locale \in Locales

\* where the number formatting plays no part (the settling of requests under
\* fairness, the insertion flow next to the search, the proxy) one locale is explored
OneLocale == {"en-US"}

OneLocaleInit == Init /\ locale \in OneLocale

-----------------------------------------------------------------------------
(* performSearch up to its first await *)

\* lines 272-283: set the flags, show the spinner, call searchFamily (fetch)
StartSearch(searchTerm) ==
    /\ isLoading' = TRUE
    /\ currentPage' = 1
    /\ spinnerDisplay' = "flex"
    /\ iconsGridDisplay' = "none"
    /\ network' = network \cup
          {SearchRequest(nextReq, SearchFamilyUrl(Family, searchTerm, 1, PerPage))}
    /\ nextReq' = nextReq + 1
    /\ UNCHANGED <<currentIcons, iconsGridHTML, resultsCount>>

\* lines 267-270: the idle prompt, no request
ShowIdle ==
    /\ iconsGridHTML' = ShowApiKeyMessage
    /\ UNCHANGED <<isLoading, currentPage, currentIcons, network, nextReq,
                   iconsGridDisplay, spinnerDisplay, resultsCount>>

\* mutant of PerformSearch: no isLoading gate
PerformSearchNoGate ==
    IF Trim(text) = <<>> THEN ShowIdle
    ELSE StartSearch(Trim(text))

\* mutant of PerformSearch: the empty-term test comes before the isLoading gate
PerformSearchBlankFirst ==
    IF Trim(text) = <<>> THEN ShowIdle
    ELSE IF isLoading THEN UNCHANGED searchVars
    ELSE StartSearch(Trim(text))

PerformSearch ==
    IF isLoading THEN UNCHANGED searchVars
    ELSE IF Trim(text) = <<>> THEN ShowIdle
    ELSE StartSearch(Trim(text))

-----------------------------------------------------------------------------
(* Event handlers *)

\* the "input" listener: the user changed the text to t
Input(t) ==
    /\ nextTimer <= MaxTimers
    /\ text' = t
    /\ timers' = SetTimeout(ClearTimeout(timers, searchTimeout), nextTimer, DebounceMs)
    /\ searchTimeout' = nextTimer
    /\ nextTimer' = nextTimer + 1
    /\ quiet' = 0
    /\ settleInfo' = UserActed
    /\ lastOp' = Plain("input")
    /\ UNCHANGED searchVars
    /\ NoClickStep

Keys == {"Enter", "a"}

\* mutant of Keypress: Enter does not cancel the pending timer
KeypressNoClear(key) ==
    /\ IF key = "Enter"
       THEN /\ timers' = timers
            /\ PerformSearch
            /\ nextReq' <= MaxRequests + 1
            /\ settleInfo' = UserActed
            /\ lastOp' = Dispatch("enter")
       ELSE UNCHANGED <<timers, searchVars, settleInfo, lastOp>>
    /\ UNCHANGED <<text, nextTimer, searchTimeout, quiet>>
    /\ NoClickStep

\* the "keypress" listener
Keypress(key) ==
    /\ IF key = "Enter"
       THEN /\ timers' = ClearTimeout(timers, searchTimeout)
            /\ PerformSearch
            /\ nextReq' <= MaxRequests + 1
            /\ settleInfo' = UserActed
            /\ lastOp' = Dispatch("enter")
       ELSE UNCHANGED <<timers, searchVars, settleInfo, lastOp>>
    /\ UNCHANGED <<text, nextTimer, searchTimeout, quiet>>
    /\ NoClickStep

\* the delays left on the pending timers: the debounce timers and the toasts' timers
Deadlines == {t.remaining : t \in timers} \cup {t.remaining : t \in toasts}

\* the step of the clock: fine while only the debounce timer is pending, coarse
\* while toasts are shown
Granularity == IF toasts = {} THEN Quantum ELSE ToastQuantum

\* the time one Tick lets pass: the step of the clock, or less when a timer is due sooner
Elapsed ==
    IF \E r \in Deadlines : r <= Granularity
    THEN CHOOSE d \in Deadlines : \A r \in Deadlines : d <= r
    ELSE Granularity

\* time passes while no pending timer is due
Tick ==
    /\ Deadlines # {}
    /\ \A r \in Deadlines : r > 0
    /\ timers' = {[t EXCEPT !.remaining = t.remaining - Elapsed] : t \in timers}
    /\ toasts' = {[t EXCEPT !.remaining = t.remaining - Elapsed,
                             !.age = t.age + Elapsed] : t \in toasts}
    /\ quiet' = IF timers # {} THEN quiet + Elapsed ELSE quiet
    /\ lastOp' = Plain("tick")
    /\ lastClick' = NoClick
    /\ UNCHANGED <<text, nextTimer, searchTimeout, searchVars, settleInfo>>
    /\ UNCHANGED <<clicks, nextClick, clipboard, styles, nextToast, proxied, locale>>

\* a due timer runs its callback: () => { performSearch(); }
TimerFire(t) ==
    /\ t \in timers
    /\ t.remaining = 0
    /\ timers' = timers \ {t}
    /\ PerformSearch
    /\ nextReq' <= MaxRequests + 1
    /\ lastOp' = Dispatch("timer")
    /\ UNCHANGED <<text, nextTimer, searchTimeout, quiet, settleInfo>>
    /\ NoClickStep

-----------------------------------------------------------------------------
(* performSearch after its await: the settlement of the request *)

\* mutant of Finally: a text changed during the wait is searched as a follow-up
FinallyCoalesce(req) ==
    IF Trim(text) # <<>> /\ SearchFamilyUrl(Family, Trim(text), 1, PerPage) # req.url
    THEN /\ network' = (network \ {req}) \cup
               {SearchRequest(nextReq, SearchFamilyUrl(Family, Trim(text), 1, PerPage))}
         /\ nextReq' = nextReq + 1
         /\ isLoading' = TRUE
         /\ spinnerDisplay' = "flex"
         /\ iconsGridDisplay' = "none"
    ELSE /\ network' = network \ {req}
         /\ isLoading' = FALSE
         /\ spinnerDisplay' = "none"
         /\ iconsGridDisplay' = "grid"
         /\ UNCHANGED nextReq

\* the request is settled; finally { ... } of performSearch
Finally(req) ==
    /\ network' = network \ {req}
    /\ isLoading' = FALSE
    /\ spinnerDisplay' = "none"
    /\ iconsGridDisplay' = "grid"
    /\ UNCHANGED nextReq

\* mutant of SearchFails: the error path does not run the finally block
SearchFailsStuck(req, error) ==
    /\ network' = network \ {req}
    /\ iconsGridHTML' = ShowErrorMessage(SearchErrorText(error))
    /\ UNCHANGED <<isLoading, spinnerDisplay, iconsGridDisplay, nextReq,
                   currentPage, currentIcons, resultsCount>>

\* catch (error) then finally, for an error thrown before currentIcons is assigned
SearchFails(req, error) ==
    /\ iconsGridHTML' = ShowErrorMessage(SearchErrorText(error))
    /\ Finally(req)
    /\ UNCHANGED <<currentPage, currentIcons, resultsCount>>

\* lines 286-296 then finally, for a body of the declared shape
SearchSucceeds(req, body) ==
    /\ currentIcons' = MapIcons(body.results)
    /\ iconsGridHTML' = DisplayIcons(currentIcons')
    /\ resultsCount' = UpdateResultsCount(body.pagination.total, <<>>,
                                          PageOf(body.pagination.offset),
                                          TotalPagesOf(body.pagination.total))
    /\ Finally(req)
    /\ UNCHANGED currentPage

\* lines 286-295 run, line 296 throws reading response.pagination.total
SearchFailsAtCount(req, body) ==
    /\ currentIcons' = MapIcons(body.results)
    /\ iconsGridHTML' = ShowErrorMessage(SearchErrorText(UndefinedRead("'total'")))
    /\ Finally(req)
    /\ UNCHANGED <<currentPage, resultsCount>>

\* fetch rejects: makeRequest's catch, then performSearch's catch
FetchRejects(req, error) ==
    /\ req \in network
    /\ req.stage = "fetch"
    /\ SearchFails(req, MakeRequestCatch(error, req.url))
    /\ settleInfo' = Settled
    /\ lastOp' = Settling("reject", req, 0, error, MakeRequestCatch(error, req.url))
    /\ UNCHANGED <<text, timers, nextTimer, searchTimeout, quiet>>
    /\ NoClickStep

\* fetch resolves with a response: not ok throws, ok goes on to response.json()
FetchResponds(req, response) ==
    /\ req \in network
    /\ req.stage = "fetch"
    /\ IF Ok(response)
       THEN /\ network' = (network \ {req}) \cup {[req EXCEPT !.stage = "json"]}
            /\ lastOp' = Settling("response", req, response.status, NoError, NoError)
            /\ UNCHANGED <<settleInfo, isLoading, currentPage, currentIcons, nextReq,
                           iconsGridHTML, iconsGridDisplay, spinnerDisplay,
                           resultsCount>>
       ELSE /\ SearchFails(req, MakeRequestCatch(StatusError(response), req.url))
            /\ settleInfo' = Settled
            /\ lastOp' = Settling("response", req, response.status,
                                  StatusError(response),
                                  MakeRequestCatch(StatusError(response), req.url))
    /\ UNCHANGED <<text, timers, nextTimer, searchTimeout, quiet>>
    /\ NoClickStep

\* response.json() rejects
JsonRejects(req, error) ==
    /\ req \in network
    /\ req.stage = "json"
    /\ SearchFails(req, MakeRequestCatch(error, req.url))
    /\ settleInfo' = Settled
    /\ lastOp' = Settling("jsonReject", req, 0, error, MakeRequestCatch(error, req.url))
    /\ UNCHANGED <<text, timers, nextTimer, searchTimeout, quiet>>
    /\ NoClickStep

\* response.json() resolves with a body
JsonResolves(req, body) ==
    /\ req \in network
    /\ req.stage = "json"
    /\ CASE body.shape = "search" ->
              /\ SearchSucceeds(req, body)
              /\ lastOp' = [Settling("json", req, 200, NoError, NoError)
                               EXCEPT !.pagination = body.pagination]
         [] body.shape = "noResults" ->
              /\ SearchFails(req, UndefinedRead("'map'"))
              /\ lastOp' = Settling("json", req, 200, NoError, UndefinedRead("'map'"))
         [] body.shape = "noPagination" ->
              /\ SearchFailsAtCount(req, body)
              /\ lastOp' = Settling("json", req, 200, NoError, UndefinedRead("'total'"))
    /\ settleInfo' = Settled
    /\ UNCHANGED <<text, timers, nextTimer, searchTimeout, quiet>>
    /\ NoClickStep

-----------------------------------------------------------------------------
(* Notifications *)

\* showSuccessNotification: the div in document.body, its style element in
\* document.head, and the timer that removes both
ShowSuccessNotification(click, message) ==
    /\ toasts' = toasts \cup {[id |-> nextToast, click |-> click, kind |-> "success",
                               message |-> message, remaining |-> SuccessToastMs,
                               age |-> 0]}
    /\ styles' = styles \cup {nextToast}
    /\ nextToast' = nextToast + 1

\* showErrorNotification: the div in document.body and the timer that removes it
ShowErrorNotification(click, message) ==
    /\ toasts' = toasts \cup {[id |-> nextToast, click |-> click, kind |-> "error",
                               message |-> message, remaining |-> ErrorToastMs,
                               age |-> 0]}
    /\ nextToast' = nextToast + 1
    /\ UNCHANGED styles

\* mutant of RemoveNotification: the style element stays in document.head
RemoveNotificationKeepStyle(t) ==
    /\ toasts' = toasts \ {t}
    /\ UNCHANGED styles

\* the callbacks of the two removal timers: the div leaves document.body, and a
\* success toast's style element leaves document.head
RemoveNotification(t) ==
    /\ toasts' = toasts \ {t}
    /\ styles' = IF t.kind = "success" THEN styles \ {t.id} ELSE styles

\* a toast's timer is due
ToastExpire(t) ==
    /\ t \in toasts
    /\ t.remaining = 0
    /\ RemoveNotification(t)
    /\ lastClick' = [ClickOp("expire", t.click, "", 0, "", NoClipboard, NoError, t.id)
                         EXCEPT !.kind = t.kind, !.age = t.age]
    /\ UNCHANGED <<clicks, nextClick, clipboard, nextToast>>
    /\ NoSearchStep

-----------------------------------------------------------------------------
(* StreamlineAPIService.downloadIconSVG *)

\* line 201: the download URL of an icon
DownloadUrl(iconHash) ==
    [origin |-> Origin,
     path |-> <<BaseUrl, "/icons/", iconHash, "/download/svg">>,
     search |-> <<[key |-> "size", value |-> <<"48">>],
                  [key |-> "responsive", value |-> <<"false">>]>>]

\* lines 207-212: the fetch of downloadIconSVG
DownloadRequest(iconHash) ==
    [url |-> DownloadUrl(iconHash), method |-> "GET",
     headers |-> {[name |-> "accept", value |-> "image/svg+xml"]}]

\* responses to a download as fetch delivers them
DownloadResponses == {r \in Responses : r.status \in {200, 404}}

\* rejections of the download's fetch
DownloadErrors == {[name |-> "TypeError", message |-> <<"Failed", "to", "fetch">>]}

\* rejections of response.text()
TextErrors == {[name |-> "TypeError", message |-> <<"network", "error">>]}

\* SVG markup response.text() resolves with
Markups == {"<svg>a</svg>", "<svg>b</svg>"}

\* mutant of DownloadError: the message does not carry the status
DownloadErrorNoStatus(response) ==
    [name |-> "Error", message |-> <<"Failed to download SVG: ">>]

\* lines 214-216
DownloadError(response) ==
    [name |-> "Error",
     message |-> <<"Failed to download SVG: ", ToString(response.status)>>]

-----------------------------------------------------------------------------
(* insertStreamlineIcon *)

\* the ClipboardItem of the multi-format write: both representations of the markup
MultiFormat(svgContent) ==
    {[type |-> "image/svg+xml", data |-> svgContent],
     [type |-> "text/plain", data |-> svgContent]}

\* what navigator.clipboard.writeText puts on the clipboard
TextOnly(svgContent) == {[type |-> "text/plain", data |-> svgContent]}

\* rejections of navigator.clipboard.write and writeText
ClipboardErrors ==
    {[name |-> "NotAllowedError", message |-> <<"Write", "permission", "denied.">>]}

\* what the browser offers: the asynchronous Clipboard API, one without
\* ClipboardItem, or no navigator.clipboard at all
Browsers == {"clipboard", "noClipboardItem", "noClipboard"}

\* the exception the multi-format write throws before any promise exists
WriteThrows(browser) ==
    IF browser = "noClipboardItem"
    THEN [name |-> "ReferenceError",
          message |-> <<"ClipboardItem", "is", "not", "defined">>]
    ELSE UndefinedRead("'write'")

SuccessMessage(iconName) ==
    <<iconName, " SVG icon copied to clipboard! Press Ctrl+V to paste in PowerPoint.">>

FallbackMessage(iconName) ==
    <<iconName, " SVG copied as text to clipboard! Press Ctrl+V to paste.">>

\* error.message || "Failed to copy icon. Please try again."
CopyErrorText(error) ==
    IF error.message # <<>> THEN error.message
    ELSE <<"Failed to copy icon. Please try again.">>

\* mutant of CopyFails: the outer catch downloads again instead of reporting
CopyFailsRetry(c, error) ==
    /\ clicks' = (clicks \ {c}) \cup {[c EXCEPT !.pc = "download", !.svg = ""]}
    /\ UNCHANGED <<nextClick, clipboard, toasts, styles, nextToast>>

\* the outer catch of insertStreamlineIcon: the call ends with an error toast
CopyFails(c, error) ==
    /\ clicks' = clicks \ {c}
    /\ ShowErrorNotification(c.id, CopyErrorText(error))
    /\ UNCHANGED <<nextClick, clipboard>>

\* mutant of InsertStreamlineIcon: a click during a search is dropped
InsertStreamlineIconGated(iconHash, iconName) ==
    /\ ~isLoading
    /\ nextClick <= MaxClicks
    /\ clicks' = clicks \cup {[id |-> nextClick, hash |-> iconHash, name |-> iconName,
                               request |-> DownloadRequest(iconHash),
                               pc |-> "download", svg |-> ""]}
    /\ nextClick' = nextClick + 1
    /\ lastClick' = ClickOp("click", nextClick, iconName, 0, "", NoClipboard, NoError, 0)
    /\ UNCHANGED <<clipboard, toasts, styles, nextToast>>
    /\ NoSearchStep

\* the handler of a tile's click (also set on window and exported, so callable at
\* any time), up to its first await: the download is sent
InsertStreamlineIcon(iconHash, iconName) ==
    /\ nextClick <= MaxClicks
    /\ clicks' = clicks \cup {[id |-> nextClick, hash |-> iconHash, name |-> iconName,
                               request |-> DownloadRequest(iconHash),
                               pc |-> "download", svg |-> ""]}
    /\ nextClick' = nextClick + 1
    /\ lastClick' = ClickOp("click", nextClick, iconName, 0, "", NoClipboard, NoError, 0)
    /\ UNCHANGED <<clipboard, toasts, styles, nextToast>>
    /\ NoSearchStep

\* the download's fetch rejects
DownloadRejects(c, error) ==
    /\ c \in clicks
    /\ c.pc = "download"
    /\ CopyFails(c, error)
    /\ lastClick' = ClickOp("downloadReject", c.id, c.name, 0, "", NoClipboard, error,
                            nextToast)
    /\ NoSearchStep

\* the download's fetch resolves: not ok throws, ok goes on to response.text()
DownloadResponds(c, response) ==
    /\ c \in clicks
    /\ c.pc = "download"
    /\ IF Ok(response)
       THEN /\ clicks' = (clicks \ {c}) \cup {[c EXCEPT !.pc = "text"]}
            /\ lastClick' = ClickOp("downloadResponse", c.id, c.name, response.status,
                                    "", NoClipboard, NoError, 0)
            /\ UNCHANGED <<nextClick, clipboard, toasts, styles, nextToast>>
       ELSE /\ CopyFails(c, DownloadError(response))
            /\ lastClick' = ClickOp("downloadResponse", c.id, c.name, response.status,
                                    "", NoClipboard, DownloadError(response), nextToast)
    /\ NoSearchStep

\* response.text() rejects
TextRejects(c, error) ==
    /\ c \in clicks
    /\ c.pc = "text"
    /\ CopyFails(c, error)
    /\ lastClick' = ClickOp("textReject", c.id, c.name, 200, "", NoClipboard, error,
                            nextToast)
    /\ NoSearchStep

\* response.text() resolves with the markup: the multi-format write is attempted; where
\* it throws at once the inner catch calls writeText, which throws at once where
\* navigator.clipboard is missing
TextResolves(c, svgContent, browser) ==
    /\ c \in clicks
    /\ c.pc = "text"
    /\ CASE browser = "clipboard" ->
              /\ clicks' = (clicks \ {c}) \cup
                     {[c EXCEPT !.pc = "write", !.svg = svgContent]}
              /\ lastClick' = ClickOp("text", c.id, c.name, 200, svgContent,
                                      NoClipboard, NoError, 0)
              /\ UNCHANGED <<nextClick, clipboard, toasts, styles, nextToast>>
         [] browser = "noClipboardItem" ->
              /\ clicks' = (clicks \ {c}) \cup
                     {[c EXCEPT !.pc = "writeText", !.svg = svgContent]}
              /\ lastClick' = ClickOp("text", c.id, c.name, 200, svgContent,
                                      NoClipboard, WriteThrows(browser), 0)
              /\ UNCHANGED <<nextClick, clipboard, toasts, styles, nextToast>>
         [] browser = "noClipboard" ->
              /\ CopyFails(c, UndefinedRead("'writeText'"))
              /\ lastClick' = ClickOp("text", c.id, c.name, 200, svgContent,
                                      NoClipboard, UndefinedRead("'writeText'"),
                                      nextToast)
    /\ NoSearchStep

\* navigator.clipboard.write resolves: the first success message
WriteResolves(c) ==
    /\ c \in clicks
    /\ c.pc = "write"
    /\ clipboard' = MultiFormat(c.svg)
    /\ clicks' = clicks \ {c}
    /\ ShowSuccessNotification(c.id, SuccessMessage(c.name))
    /\ lastClick' = ClickOp("write", c.id, c.name, 200, c.svg, MultiFormat(c.svg),
                            NoError, nextToast)
    /\ UNCHANGED nextClick
    /\ NoSearchStep

\* mutant of WriteRejects: a failed multi-format write ends the call
WriteRejectsNoFallback(c, error) ==
    /\ c \in clicks
    /\ c.pc = "write"
    /\ CopyFails(c, error)
    /\ lastClick' = ClickOp("writeReject", c.id, c.name, 200, c.svg, NoClipboard, error,
                            nextToast)
    /\ NoSearchStep

\* navigator.clipboard.write rejects: the inner catch calls writeText with the markup
WriteRejects(c, error) ==
    /\ c \in clicks
    /\ c.pc = "write"
    /\ clicks' = (clicks \ {c}) \cup {[c EXCEPT !.pc = "writeText"]}
    /\ lastClick' = ClickOp("writeReject", c.id, c.name, 200, c.svg, NoClipboard, error, 0)
    /\ UNCHANGED <<nextClick, clipboard, toasts, styles, nextToast>>
    /\ NoSearchStep

\* mutant of WriteTextResolves: the fallback succeeds without a message
WriteTextResolvesSilent(c) ==
    /\ c \in clicks
    /\ c.pc = "writeText"
    /\ clipboard' = TextOnly(c.svg)
    /\ clicks' = clicks \ {c}
    /\ lastClick' = ClickOp("writeText", c.id, c.name, 200, c.svg, TextOnly(c.svg),
                            NoError, 0)
    /\ UNCHANGED <<nextClick, toasts, styles, nextToast>>
    /\ NoSearchStep

\* navigator.clipboard.writeText resolves: the second success message
WriteTextResolves(c) ==
    /\ c \in clicks
    /\ c.pc = "writeText"
    /\ clipboard' = TextOnly(c.svg)
    /\ clicks' = clicks \ {c}
    /\ ShowSuccessNotification(c.id, FallbackMessage(c.name))
    /\ lastClick' = ClickOp("writeText", c.id, c.name, 200, c.svg, TextOnly(c.svg),
                            NoError, nextToast)
    /\ UNCHANGED nextClick
    /\ NoSearchStep

\* mutant of WriteTextRejects: the outer catch shows an error of its own
WriteTextRejectsWrapped(c, error) ==
    /\ c \in clicks
    /\ c.pc = "writeText"
    /\ CopyFails(c, [name |-> "Error", message |-> <<"Clipboard", "unavailable">>])
    /\ lastClick' = ClickOp("writeTextReject", c.id, c.name, 200, c.svg, NoClipboard,
                            error, nextToast)
    /\ NoSearchStep

\* navigator.clipboard.writeText rejects: the outer catch
WriteTextRejects(c, error) ==
    /\ c \in clicks
    /\ c.pc = "writeText"
    /\ CopyFails(c, error)
    /\ lastClick' = ClickOp("writeTextReject", c.id, c.name, 200, c.svg, NoClipboard,
                            error, nextToast)
    /\ NoSearchStep

\* the tiles a click can come from
Tiles == {Icon1, Icon2}

-----------------------------------------------------------------------------

Next ==
    \/ \E t \in Texts : Input(t)
    \/ \E key \in Keys : Keypress(key)
    \/ Tick
    \/ \E t \in timers : TimerFire(t)
    \/ \E req \in network, error \in TransportErrors : FetchRejects(req, error)
    \/ \E req \in network, response \in Responses : FetchResponds(req, response)
    \/ \E req \in network, error \in JsonErrors : JsonRejects(req, error)
    \/ \E req \in network, body \in JsonBodies : JsonResolves(req, body)

Spec == Init /\ [][Next]_vars

\* the settlement of an issued request, in any of its ways
Settlement ==
    \E req \in network :
        \/ \E error \in TransportErrors : FetchRejects(req, error)
        \/ \E response \in Responses : FetchResponds(req, response)
        \/ \E error \in JsonErrors : JsonRejects(req, error)
        \/ \E body \in JsonBodies : JsonResolves(req, body)

\* every issued request eventually settles
FairSpec == OneLocaleInit /\ [][Next]_vars /\ WF_vars(Settlement)

\* the steps of the insertion flow for clicks on the given tiles, downloads that
\* return the given markups and the given browsers
ClickSteps(tiles, markups, browsers) ==
    \/ \E icon \in tiles : InsertStreamlineIcon(icon.hash, icon.name)
    \/ \E c \in clicks, error \in DownloadErrors : DownloadRejects(c, error)
    \/ \E c \in clicks, response \in DownloadResponses : DownloadResponds(c, response)
    \/ \E c \in clicks, error \in TextErrors : TextRejects(c, error)
    \/ \E c \in clicks, svgContent \in markups, browser \in browsers :
           TextResolves(c, svgContent, browser)
    \/ \E c \in clicks : WriteResolves(c)
    \/ \E c \in clicks, error \in ClipboardErrors : WriteRejects(c, error)
    \/ \E c \in clicks : WriteTextResolves(c)
    \/ \E c \in clicks, error \in ClipboardErrors : WriteTextRejects(c, error)
    \/ \E t \in toasts : ToastExpire(t)

\* the insertion flow: clicks on tiles, their downloads, clipboard writes and toasts
ClickNext ==
    \/ ClickSteps(Tiles, Markups, Browsers)
    \/ Tick

ClickSpec == Init /\ [][ClickNext]_vars

\* the inputs of the task pane as a whole: one text, one outcome of each kind of
\* settlement, one tile, one markup
PaneTexts == {<<"a">>}
PaneTransportErrors == {e \in TransportErrors : e.message = <<"Failed", "to", "fetch">>}
PaneResponses == {r \in Responses : r.status \in {200, 500}}
PaneJsonErrors == {e \in JsonErrors : e.name = "TypeError"}
PaneBodies == {b \in JsonBodies : b.shape = "search" /\ b.pagination.total = 1}
PaneTiles == {Icon1}
PaneMarkups == {"<svg>a</svg>"}

\* the task pane as a whole: the search and the insertion flow side by side
PaneNext ==
    \/ \E t \in PaneTexts : Input(t)
    \/ Keypress("Enter")
    \/ \E t \in timers : TimerFire(t)
    \/ \E req \in network, error \in PaneTransportErrors : FetchRejects(req, error)
    \/ \E req \in network, response \in PaneResponses : FetchResponds(req, response)
    \/ \E req \in network, error \in PaneJsonErrors : JsonRejects(req, error)
    \/ \E req \in network, body \in PaneBodies : JsonResolves(req, body)
    \/ ClickSteps(PaneTiles, PaneMarkups, Browsers)
    \/ Tick

PaneSpec == OneLocaleInit /\ [][PaneNext]_vars

-----------------------------------------------------------------------------
(* The proxy: createProxyMiddleware mounted on /api/streamline *)

\* target of the proxy
Target == "https://public-api.streamlinehq.com/v1"

\* process.env.STREAMLINE_API_KEY: unset, set to the empty string, set to a key
Environments ==
    {[set |-> FALSE, value |-> ""], [set |-> TRUE, value |-> ""],
     [set |-> TRUE, value |-> "sk-1"]}

\* process.env.STREAMLINE_API_KEY || ''
ApiKey(env) == IF env.set /\ env.value # "" THEN env.value ELSE ""

\* proxyReq.setHeader(name, value): the header of that name is replaced
SetHeader(headers, name, value) ==
    {h \in headers : h.name # name} \cup {[name |-> name, value |-> value]}

\* req.url as the middleware sees it: the mount path stripped, the query string kept
ReqUrl(url) == Tail(url.path) \o SearchToString(url.search, TRUE)

\* a fetch of the task pane as it arrives at the proxy
Incoming(request) ==
    [method |-> request.method, url |-> ReqUrl(request.url),
     headers |-> request.headers]

\* requests of other clients: a search whose query holds the text /download/svg
\* unencoded, a PNG download, a listing sent with a key and an accept of its own, and
\* an SVG download that asks for JSON
ForeignRequests ==
    {[method |-> "GET",
      url |-> <<"/search/family/", "streamline-light", "?", "query", "=",
                "/download/svg">>,
      headers |-> {[name |-> "accept", value |-> "*/*"]}],
     [method |-> "GET", url |-> <<"/icons/", "h1", "/download/png">>, headers |-> {}],
     [method |-> "GET", url |-> <<"/families">>,
      headers |-> {[name |-> "accept", value |-> "text/html"],
                   [name |-> "x-api-key", value |-> "forged"]}],
     [method |-> "GET", url |-> <<"/icons/", "h2", "/download/svg", "?", "size", "=", "48">>,
      headers |-> {[name |-> "accept", value |-> "application/json"]}]}

\* the headers onProxyReq leaves on the outgoing request
ProxyHeaders(req, env) ==
    SetHeader(SetHeader(req.headers, "x-api-key", ApiKey(env)),
              "accept",
              IF Includes(req.url, <<"/download/svg">>)
              THEN "image/svg+xml" ELSE "application/json")

\* the middleware forwards req: pathRewrite has removed the mount path, onProxyReq
\* sets the two headers
OnProxyReq(req, env) ==
    /\ proxied' = [req |-> req,
                   proxyReq |-> [method |-> req.method, url |-> <<Target>> \o req.url,
                                 headers |-> ProxyHeaders(req, env)],
                   apiKey |-> ApiKey(env)]
    /\ UNCHANGED <<text, timers, nextTimer, searchTimeout, searchVars, quiet,
                   settleInfo, lastOp, clicks, nextClick, clipboard, toasts, styles,
                   nextToast, lastClick, locale>>

\* the proxy in front of the task pane: the pane issues searches and downloads, the
\* proxy forwards them and the requests of other clients
ProxyNext ==
    \/ \E t \in Texts : Input(t)
    \/ \E key \in Keys : Keypress(key)
    \/ Tick
    \/ \E t \in timers : TimerFire(t)
    \/ \E icon \in Tiles : InsertStreamlineIcon(icon.hash, icon.name)
    \/ \E req \in network, env \in Environments : OnProxyReq(Incoming(req), env)
    \/ \E c \in clicks, env \in Environments : OnProxyReq(Incoming(c.request), env)
    \/ \E req \in ForeignRequests, env \in Environments : OnProxyReq(req, env)

ProxySpec == OneLocaleInit /\ [][ProxyNext]_vars


-----------------------------------------------------------------------------
(* Vocabulary of the properties *)

\* s is empty or whitespace only
IsBlank(s) == \A i \in 1..Len(s) : s[i] \in Whitespace

\* a text that is not blank, without its leading and trailing whitespace
FirstInk(s) == CHOOSE i \in 1..Len(s) :
                  s[i] \notin Whitespace /\ \A k \in 1..(i - 1) : s[k] \in Whitespace
LastInk(s) == CHOOSE i \in 1..Len(s) :
                  s[i] \notin Whitespace /\ \A k \in (i + 1)..Len(s) : s[k] \in Whitespace
Trimmed(s) == SubSeq(s, FirstInk(s), LastInk(s))

\* the URL of a search for query q on page 1, as text
SearchUrlText(q) ==
    <<"https://localhost:3000", "/api/streamline", "/search/family/",
      "streamline-light", "?", "page", "=", "1", "&", "per_page", "=", "100",
      "&", "query", "=">> \o Encode(q)

\* this step issues exactly one request: a search for q, page 1
IssuesSearch(q) ==
    /\ Cardinality(network' \ network) = 1
    /\ nextReq' = nextReq + 1
    /\ currentPage' = 1
    /\ \A r \in network' \ network : UrlToString(r.url) = SearchUrlText(q)

\* this step issues no request
IssuesNothing == network' = network /\ nextReq' = nextReq

\* this step is a dispatch: the timer callback or an Enter press ran performSearch
IsDispatch == lastOp'.op \in {"timer", "enter"}

\* the last handler settled a request (a 2xx response alone settles nothing)
LastSettled ==
    \/ lastOp.op \in {"reject", "jsonReject", "json"}
    \/ lastOp.op = "response" /\ ~(lastOp.status >= 200 /\ lastOp.status <= 299)

-----------------------------------------------------------------------------
(* C1 *)

\* C1: in every reachable state at most one search request is in flight; a request
\* is in flight only while isLoading is true, and the step that issued a request
\* found isLoading false and left it true together with the request.
C1_SingleFlight ==
    /\ Cardinality(network) <= 1
    /\ network # {} => isLoading
    /\ lastOp.issued # 0 =>
          /\ ~lastOp.wasLoading
          /\ isLoading
          /\ \E r \in network : r.id = lastOp.issued

\* a timer fired while a request was in flight, and there is still only that one
C1_Witness ==
    /\ lastOp.op = "timer"
    /\ lastOp.wasLoading
    /\ Cardinality(network) = 1

-----------------------------------------------------------------------------
(* C2 *)

\* C2 as stated: whenever the debounce timer fires, 500ms of quiet have passed since
\* the last input event and the firing issues exactly one search request, for the
\* final text and page 1.
C2_Original ==
    [][lastOp'.op = "timer" =>
          /\ quiet >= DebounceMs
          /\ ~IsBlank(text)
          /\ IssuesSearch(Trimmed(text))]_vars

\* C2 amended: whenever the debounce timer fires, 500ms of quiet have passed since
\* the last input event; the firing issues exactly one search request, for the
\* trimmed final text and page 1, when no search is outstanding and the final text
\* is not blank, and issues none otherwise.
C2_QuietPeriodSearch ==
    [][lastOp'.op = "timer" =>
          /\ quiet >= DebounceMs
          /\ IF ~isLoading /\ ~IsBlank(text)
             THEN IssuesSearch(Trimmed(text))
             ELSE IssuesNothing]_vars

\* after two input events the timer fired and issued a search for a text that
\* needed trimming
C2_Witness ==
    /\ lastOp.op = "timer"
    /\ lastOp.issued # 0
    /\ nextTimer > 2
    /\ quiet >= DebounceMs
    /\ Trimmed(text) # text

-----------------------------------------------------------------------------
(* C3 *)

\* C3 as stated: an Enter press while a debounce timer is pending and the quiet
\* period has not elapsed leaves no timer pending and issues, in the same step,
\* exactly one search request for the current text.
C3_Original ==
    [][(lastOp'.op = "enter" /\ timers # {} /\ quiet < DebounceMs) =>
          /\ timers' = {}
          /\ ~IsBlank(text)
          /\ IssuesSearch(Trimmed(text))]_vars

\* C3 amended: such an Enter press leaves no timer pending (the cancelled timer
\* never fires) and dispatches at once: it issues exactly one search request for
\* the trimmed current text when no search is outstanding and the text is not
\* blank, and issues none otherwise.
C3_EnterCancelsAndDispatches ==
    [][(lastOp'.op = "enter" /\ timers # {} /\ quiet < DebounceMs) =>
          /\ timers' = {}
          /\ IF ~isLoading /\ ~IsBlank(text)
             THEN IssuesSearch(Trimmed(text))
             ELSE IssuesNothing]_vars

\* Enter was pressed with a timer pending before the quiet period elapsed: the
\* timer is gone and a request was issued
C3_Witness ==
    /\ lastOp.op = "enter"
    /\ lastOp.hadTimer
    /\ lastOp.issued # 0
    /\ quiet < DebounceMs
    /\ timers = {}

-----------------------------------------------------------------------------
(* C4 *)

\* C4 as stated: every dispatch whose current text is blank issues no request and
\* puts the idle prompt in the panel.
C4_Original ==
    [][(IsDispatch /\ IsBlank(text)) =>
          /\ IssuesNothing
          /\ iconsGridHTML' = ShowApiKeyMessage]_vars

\* C4 amended: every dispatch whose current text is blank issues no request; it
\* puts the idle prompt in the panel when no search is outstanding, and leaves the
\* panel as it is when one is.
C4_BlankIssuesNothing ==
    [][(IsDispatch /\ IsBlank(text)) =>
          /\ IssuesNothing
          /\ IF isLoading
             THEN iconsGridHTML' = iconsGridHTML
             ELSE iconsGridHTML' = ShowApiKeyMessage]_vars

\* the timer fired on a whitespace-only text with no search outstanding: the idle
\* prompt replaced the grid of an earlier search
C4_Witness ==
    /\ lastOp.op = "timer"
    /\ ~lastOp.wasLoading
    /\ lastOp.issued = 0
    /\ IsBlank(text)
    /\ text # <<>>
    /\ currentIcons # <<>>
    /\ iconsGridHTML = ShowApiKeyMessage

-----------------------------------------------------------------------------
(* C5 *)

\* C5: a dispatch that arrives while a search is outstanding issues no request and
\* leaves isLoading, the page counter, the stored results and the panel unchanged.
C5_DispatchWhileLoadingNoOp ==
    [][(IsDispatch /\ isLoading) =>
          /\ IssuesNothing
          /\ UNCHANGED <<isLoading, currentPage, currentIcons, iconsGridHTML,
                         iconsGridDisplay, spinnerDisplay>>]_vars

\* Enter was pressed on a blank text while a search was outstanding, and the panel
\* is not the idle prompt
C5_Witness ==
    /\ lastOp.op = "enter"
    /\ lastOp.wasLoading
    /\ isLoading
    /\ IsBlank(text)
    /\ iconsGridHTML.kind # "prompt"

-----------------------------------------------------------------------------
(* C6 *)

\* C6 as stated: once a search has settled, a request is issued only after an input
\* event or an Enter press that came after that settlement.
C6_Original ==
    [][nextReq' > nextReq => settleInfo' \in {"never", "userActed"}]_vars

\* C6 amended: a settlement issues no request, and dropped triggers leave nothing
\* behind: a request is issued only by an Enter press or by the firing of a debounce
\* timer, and once a search has settled with no timer pending, only after an input
\* event or an Enter press that came after that settlement. (A timer scheduled by
\* an input event during the wait and still pending at the settlement fires and
\* issues a request without any new input.)
C6_NoQueuedTrigger ==
    [][nextReq' > nextReq =>
          /\ IsDispatch
          /\ settleInfo' # "settledIdle"]_vars

\* a search has just settled with no timer pending while the text had changed
\* during the wait, and no request is in flight
C6_Witness ==
    /\ LastSettled
    /\ lastOp.wasLoading
    /\ settleInfo = "settledIdle"
    /\ network = {}
    /\ ~IsBlank(text)
    /\ UrlToString(lastOp.url) # SearchUrlText(Trimmed(text))

-----------------------------------------------------------------------------
(* C7 *)

\* C7: whenever an issued search settles, with success or with any error, isLoading
\* is false afterwards; and if every request eventually settles, a search that is
\* loading is eventually not loading.
C7_SettlementClearsLoading ==
    /\ [](LastSettled => ~isLoading)
    /\ (isLoading ~> ~isLoading)

\* after a search settled with an error, a later trigger issued the second request
C7_Witness ==
    /\ lastOp.issued = 2
    /\ isLoading
    /\ iconsGridHTML.kind = "error"

-----------------------------------------------------------------------------
(* C8 *)

\* C8: in every reachable state at most one debounce timer is pending; it is the
\* one the last input event scheduled, and it is due 500ms after that event.
C8_SingletonTimer ==
    /\ Cardinality(timers) <= 1
    /\ \A t \in timers :
          /\ t.id = searchTimeout
          /\ t.remaining = DebounceMs - quiet

\* an input event arrived while a timer was pending: one timer is pending, due in
\* 500ms
C8_Witness ==
    /\ lastOp.op = "input"
    /\ lastOp.hadTimer
    /\ \E t \in timers : t.remaining = DebounceMs
    /\ Cardinality(timers) = 1

-----------------------------------------------------------------------------
(* C9 *)

AuthMarker == <<"Invalid", "API", "key">>
RateMarker == <<"Rate", "limit">>

\* C9: after a response that is not 2xx the panel is the error panel with the
\* message of the error raised: for 401 it contains "Invalid API key", for 429
\* "Rate limit", for any other status the status code, and a message carries the
\* marker of its own case only.
C9_StatusMessages ==
    (lastOp.op = "response" /\ ~(lastOp.status >= 200 /\ lastOp.status <= 299)) =>
        /\ iconsGridHTML.kind = "error"
        /\ iconsGridHTML.message = lastOp.caught.message
        /\ Includes(iconsGridHTML.message, AuthMarker) <=> lastOp.status = 401
        /\ Includes(iconsGridHTML.message, RateMarker) <=> lastOp.status = 429
        /\ Includes(iconsGridHTML.message, <<ToString(lastOp.status)>>)
              <=> lastOp.status \notin {401, 429}

\* a 429 response has just been shown
C9_Witness ==
    /\ lastOp.op = "response"
    /\ lastOp.status = 429
    /\ iconsGridHTML.kind = "error"

-----------------------------------------------------------------------------
(* C10 *)

\* the message speaks of fetching, of the network or of CORS, or is "Load failed",
\* the message WebKit gives a fetch that failed
C10_Indicates(message) ==
    \/ \E i \in 1..Len(message) :
           message[i] \in {"fetch", "NetworkError", "network", "CORS"}
    \/ message = <<"Load", "failed">>

\* what was thrown is a transport failure: fetch rejected, or reading the body of the
\* response failed with a TypeError (a SyntaxError is a parsing failure)
C10_TransportFailure ==
    \/ lastOp.op = "reject"
    \/ lastOp.op = "jsonReject" /\ lastOp.thrown.name = "TypeError"

\* message ends with the tokens of tail
EndsWith(message, tail) ==
    /\ Len(message) >= Len(tail)
    /\ SubSeq(message, Len(message) - Len(tail) + 1, Len(message)) = tail

\* C10: when something is thrown inside makeRequest, a transport failure whose
\* message indicates a fetch, network or CORS condition reaches performSearch as a
\* CORS/Network error whose message ends with the URL of the request; anything else
\* (the errors of the non-2xx statuses, the parsing failures) reaches it unchanged.
C10_NetworkErrorMapping ==
    (LastSettled /\ lastOp.thrown # NoError) =>
        IF C10_TransportFailure /\ C10_Indicates(lastOp.thrown.message)
        THEN /\ lastOp.caught.name = "Error"
             /\ Includes(lastOp.caught.message, <<"CORS/Network", "error:">>)
             /\ EndsWith(lastOp.caught.message,
                         <<"URL", "attempted:">> \o UrlToString(lastOp.url))
        ELSE lastOp.caught = lastOp.thrown

-----------------------------------------------------------------------------
(* Vocabulary of the properties of the insertion flow *)

\* the toasts this step shows
ShownNow == {t \in toasts' : t.id \notin {u.id : u \in toasts}}

\* this step shows exactly one toast, of the given kind, for the given call, with
\* the given text
ShowsToast(kind, click, message) ==
    \E t \in ShownNow :
        /\ ShownNow = {t}
        /\ t.kind = kind
        /\ t.click = click
        /\ t.message = message

\* the calls that wait for navigator.clipboard.writeText
AwaitingWriteText(cs) == {c.id : c \in {x \in cs : x.pc = "writeText"}}

\* in this step the multi-format write failed: its promise rejected, or it threw
MultiFormatFailedNow ==
    \/ lastClick'.op = "writeReject"
    \/ lastClick'.op = "text" /\ lastClick'.thrown # NoError

\* in this step writeText was called: a call now waits for it, or it threw at once
WriteTextCalledNow ==
    \/ AwaitingWriteText(clicks') \ AwaitingWriteText(clicks) # {}
    \/ lastClick'.op = "text" /\ lastClick'.thrown = UndefinedRead("'writeText'")

-----------------------------------------------------------------------------
(* C11 *)

\* C11: the plain-text write is attempted in exactly the steps in which the
\* multi-format write failed, and with the markup the multi-format write was given;
\* a multi-format write that succeeds puts both representations of the markup on the
\* clipboard and shows "<name> SVG icon copied to clipboard! Press Ctrl+V to paste in
\* PowerPoint.", a plain-text write that succeeds puts the same markup on the
\* clipboard as text and shows "<name> SVG copied as text to clipboard! Press Ctrl+V
\* to paste.".
C11_FallbackIffMultiFormatFailed ==
    [][/\ WriteTextCalledNow <=> MultiFormatFailedNow
       /\ \A c \in clicks' :
              (c.pc = "writeText" /\ c.id \notin AwaitingWriteText(clicks)) =>
                  c.svg = lastClick'.svg
       /\ lastClick'.op = "write" =>
              /\ clipboard' = {[type |-> "image/svg+xml", data |-> lastClick'.svg],
                               [type |-> "text/plain", data |-> lastClick'.svg]}
              /\ ShowsToast("success", lastClick'.click,
                     <<lastClick'.name,
                       " SVG icon copied to clipboard! Press Ctrl+V to paste in PowerPoint.">>)
       /\ lastClick'.op = "writeText" =>
              /\ clipboard' = {[type |-> "text/plain", data |-> lastClick'.svg]}
              /\ ShowsToast("success", lastClick'.click,
                     <<lastClick'.name,
                       " SVG copied as text to clipboard! Press Ctrl+V to paste.">>)
      ]_vars

\* the multi-format write of a call was rejected and its plain-text write has just
\* succeeded with the same markup
C11_Witness ==
    /\ lastClick.op = "writeText"
    /\ lastClick.svg \in Markups
    /\ clipboard = TextOnly(lastClick.svg)
    /\ \E t \in toasts : t.id = lastClick.toast /\ t.message = FallbackMessage(lastClick.name)

-----------------------------------------------------------------------------
(* C12 *)

\* C12: when the plain-text write fails after the multi-format write failed, the
\* outer catch receives the error of the plain-text write as it was thrown: the call
\* ends with an error toast showing that error's message, no success toast is shown
\* and the clipboard is not changed.
C12_BothWritesFail ==
    [][(\/ lastClick'.op = "writeTextReject"
        \/ lastClick'.op = "text" /\ lastClick'.thrown = UndefinedRead("'writeText'")) =>
           /\ ShowsToast("error", lastClick'.click, lastClick'.thrown.message)
           /\ \A t \in toasts' : t.click = lastClick'.click => t.kind = "error"
           /\ \A c \in clicks' : c.id # lastClick'.click
           /\ clipboard' = clipboard
      ]_vars

\* both writes of a call were rejected and its error toast is shown
C12_Witness ==
    /\ lastClick.op = "writeTextReject"
    /\ lastClick.thrown \in ClipboardErrors
    /\ \E t \in toasts : t.id = lastClick.toast /\ t.kind = "error"

-----------------------------------------------------------------------------
(* C13 *)

\* the calls whose download is in flight
Downloading(cs) == {c.id : c \in {x \in cs : x.pc = "download"}}

\* in this step performSearch caught an error
SearchFailedNow ==
    /\ lastOp'.op \in {"reject", "response", "jsonReject", "json"}
    /\ lastOp'.caught # NoError

\* in this step the outer catch of insertStreamlineIcon caught an error
CopyFailedNow ==
    /\ lastClick'.op \in {"downloadReject", "downloadResponse", "textReject", "text",
                          "writeTextReject"}
    /\ lastClick'.thrown # NoError
    /\ lastClick'.click \notin {c.id : c \in clicks'}

\* C13: nothing is retried and every error is shown. The step in which a search
\* fails issues no request and leaves the error panel with the text of the error;
\* the step in which a download or a clipboard copy fails starts no download and
\* shows an error toast with the text of the error; requests are issued only by
\* dispatches (an Enter press or a debounce timer) and downloads only by clicks.
C13_NoRetryErrorsShown ==
    [][/\ SearchFailedNow =>
              /\ nextReq' = nextReq
              /\ network' \subseteq network
              /\ Downloading(clicks') = Downloading(clicks)
              /\ iconsGridHTML' = [kind |-> "error", message |-> lastOp'.caught.message,
                                   tiles |-> <<>>]
       /\ CopyFailedNow =>
              /\ Downloading(clicks') \subseteq Downloading(clicks)
              /\ nextClick' = nextClick
              /\ network' = network
              /\ ShowsToast("error", lastClick'.click, lastClick'.thrown.message)
       /\ lastClick'.thrown # NoError =>
              /\ Downloading(clicks') \subseteq Downloading(clicks)
              /\ network' = network
       /\ nextReq' # nextReq => lastOp'.op \in {"enter", "timer"}
       /\ Downloading(clicks') \ Downloading(clicks) # {} => lastClick'.op = "click"
      ]_vars

\* a search has failed and its error panel is shown, and a call of
\* insertStreamlineIcon has just failed and shown its error toast
C13_Witness ==
    /\ iconsGridHTML.kind = "error"
    /\ nextReq > 1
    /\ lastClick.thrown # NoError
    /\ \E t \in toasts : t.id = lastClick.toast /\ t.kind = "error"

-----------------------------------------------------------------------------
(* C14 *)

\* the last handler completed a search successfully
LastSucceeded == lastOp.op = "json" /\ lastOp.caught = NoError

\* the pages of a result: floor(offset/100)+1 of ceil(total/100)
C14_Pages(total, offset) ==
    <<" (Page ", ToString((offset \div 100) + 1), " of ",
      ToString(CHOOSE t \in 0..((total \div 100) + 1) :
                   t * 100 >= total /\ (t - 1) * 100 < total), ")">>

\* the last three digits of n, and the last two
C14_Last3(n) == <<Digit((n % 1000) \div 100), Digit((n % 100) \div 10), Digit(n % 10)>>
C14_Last2(n) == <<Digit((n % 100) \div 10), Digit(n % 10)>>

\* n below ten million as the locale l writes it: en-US 1,234,567, de-DE 1.234.567,
\* fr-FR 1 234 567 (the gaps are U+202F), en-IN 12,34,567, es-ES 1.234.567 but 1234
C14_Grouped(n, l) ==
    LET sep == IF l \in {"de-DE", "es-ES"} THEN "."
               ELSE IF l = "fr-FR" THEN "U+202F" ELSE ","
    IN  IF n < 1000 \/ (l = "es-ES" /\ n < 10000) THEN Digits(n)
        ELSE IF n < 100000 \/ (l # "en-IN" /\ n < 1000000)
        THEN Digits(n \div 1000) \o <<sep>> \o C14_Last3(n)
        ELSE IF l = "en-IN"
        THEN Digits(n \div 100000) \o <<sep>> \o C14_Last2(n \div 1000) \o <<sep>>
             \o C14_Last3(n)
        ELSE Digits(n \div 1000000) \o <<sep>> \o C14_Last3(n \div 1000) \o <<sep>>
             \o C14_Last3(n)

\* C14 as stated: after a successful search the label is "No icons found" for total
\* 0, "1 icon found" for total 1 and "<N> icons found (Page <p> of <t>)" for a total
\* N > 1, N written as its decimal digits.
C14_Original ==
    LastSucceeded =>
        resultsCount =
            IF lastOp.pagination.total = 0 THEN <<"No icons found">>
            ELSE IF lastOp.pagination.total = 1 THEN <<"1 icon found">>
            ELSE Digits(lastOp.pagination.total) \o <<" icons found">> \o
                 C14_Pages(lastOp.pagination.total, lastOp.pagination.offset)

\* C14 amended: after a successful search the label is "No icons found" for total 0,
\* "1 icon found" for total 1 and "<N> icons found (Page <p> of <t>)" for a total
\* N > 1, N written as toLocaleString writes it in the default locale of the host,
\* p = floor(offset/100)+1 and t = ceil(total/100). In en-US, en-IN, de-DE, fr-FR
\* and es-ES that is plain digits below 1000 and, from 1000 on, the digits grouped as
\* the locale groups them; there total 250 and offset 0 give "250 icons found (Page
\* 1 of 3)", total 1234 and offset 200 give "1,234 icons found (Page 3 of 13)" in
\* en-US and "1.234 icons found (Page 3 of 13)" in de-DE.
C14_ResultsCountLabel ==
    LastSucceeded =>
        /\ resultsCount =
               IF lastOp.pagination.total = 0 THEN <<"No icons found">>
               ELSE IF lastOp.pagination.total = 1 THEN <<"1 icon found">>
               ELSE C14_Grouped(lastOp.pagination.total, locale) \o <<" icons found">> \o
                    C14_Pages(lastOp.pagination.total, lastOp.pagination.offset)
        /\ lastOp.pagination = [total |-> 250, offset |-> 0] =>
               resultsCount = <<"2", "5", "0", " icons found", " (Page ", "1", " of ",
                                "3", ")">>
        /\ lastOp.pagination = [total |-> 1234, offset |-> 200] /\ locale = "en-US" =>
               resultsCount = <<"1", ",", "2", "3", "4", " icons found", " (Page ", "3",
                                " of ", "13", ")">>
        /\ lastOp.pagination = [total |-> 1234, offset |-> 200] /\ locale = "de-DE" =>
               resultsCount = <<"1", ".", "2", "3", "4", " icons found", " (Page ", "3",
                                " of ", "13", ")">>

\* in a pane whose default locale is de-DE a search with a total of 1234 at offset 200
\* has just succeeded: the label reads "1.234 icons found (Page 3 of 13)"
C14_Witness ==
    /\ LastSucceeded
    /\ locale = "de-DE"
    /\ lastOp.pagination = [total |-> 1234, offset |-> 200]
    /\ resultsCount = <<"1", ".", "2", "3", "4", " icons found", " (Page ", "3", " of ",
                        "13", ")">>

-----------------------------------------------------------------------------
(* C15 *)

\* the calls for which a clipboard write has been attempted
Writing(cs) == {c.id : c \in {x \in cs : x.pc \in {"write", "writeText"}}}

\* the calls that wait for response.text()
Reading(cs) == {c.id : c \in {x \in cs : x.pc = "text"}}

\* C15: a call reaches response.text() only by an ok response to its download, and a
\* clipboard write only by the markup response.text() resolved with; the markup a call
\* holds does not change afterwards, and whatever is put on the clipboard is the
\* markup of the call that wrote it. A response that is not ok makes the call fail with
\* "Failed to download SVG: <status>": the call ends there, no write attempted, the
\* clipboard as it was.
C15_DownloadThenWrite ==
    [][/\ \A c \in clicks' :
              /\ (c.id \in Reading(clicks') \ Reading(clicks)) =>
                     /\ c.id \in Downloading(clicks)
                     /\ lastClick'.op = "downloadResponse"
                     /\ lastClick'.click = c.id
                     /\ lastClick'.status \in 200..299
              /\ (c.id \in Writing(clicks') \ Writing(clicks)) =>
                     /\ c.id \in Reading(clicks)
                     /\ lastClick'.op = "text"
                     /\ lastClick'.click = c.id
                     /\ c.svg = lastClick'.svg
                     /\ c.svg \in Markups
              /\ c.id \in Writing(clicks) =>
                     \E b \in clicks : b.id = c.id /\ b.svg = c.svg
       /\ clipboard' # clipboard =>
              \E c \in clicks :
                  /\ c.id = lastClick'.click
                  /\ c.id \in Writing(clicks)
                  /\ \A r \in clipboard' : r.data = c.svg
       /\ (lastClick'.op = "downloadResponse" /\ lastClick'.status \notin 200..299) =>
              /\ lastClick'.thrown =
                     [name |-> "Error",
                      message |-> <<"Failed to download SVG: ",
                                    ToString(lastClick'.status)>>]
              /\ lastClick'.click \in Downloading(clicks)
              /\ lastClick'.click \notin {c.id : c \in clicks'}
              /\ clipboard' = clipboard
      ]_vars

\* two calls hold different markups, and one of them has just written its own
C15_Witness ==
    /\ lastClick.op = "write"
    /\ clipboard = MultiFormat(lastClick.svg)
    /\ \E c \in clicks : c.id \in Writing(clicks) /\ c.svg # lastClick.svg

-----------------------------------------------------------------------------
(* C16 *)

\* the call can take the step that brings it nearer to its success message
CanProceed(c) ==
    CASE c.pc = "download" ->
             ENABLED DownloadResponds(c, [status |-> 200, statusText |-> <<"OK">>])
      [] c.pc = "text" -> ENABLED TextResolves(c, "<svg>a</svg>", "clipboard")
      [] c.pc = "write" -> ENABLED WriteResolves(c)
      [] c.pc = "writeText" -> ENABLED WriteTextResolves(c)

\* C16: a click is accepted whatever isLoading is and whatever other calls are
\* pending; every pending call can take its next step towards success whatever
\* happened to the others; and a step of one call changes neither another call nor
\* the search.
C16_ClicksIndependent ==
    /\ [](/\ nextClick <= MaxClicks =>
                 ENABLED InsertStreamlineIcon(Icon1.hash, Icon1.name)
          /\ \A c \in clicks : CanProceed(c))
    /\ [][lastClick'.op # "none" =>
              /\ \A c \in clicks : c.id # lastClick'.click => c \in clicks'
              /\ \A c \in clicks' : c.id # lastClick'.click => c \in clicks
              /\ UNCHANGED <<text, timers, searchTimeout, searchVars>>
         ]_vars

\* a click has just been accepted while a search was loading and the download of an
\* earlier click was pending
C16_Witness ==
    /\ lastClick.op = "click"
    /\ lastClick.wasLoading
    /\ isLoading
    /\ lastClick.others = 1
    /\ Cardinality(Downloading(clicks)) = 2

-----------------------------------------------------------------------------
(* C17 *)

\* C17: a request in flight is the one issued last, and the step that completes a
\* search successfully settles the request issued last and leaves on display the
\* icons it stored.
C17_LatestRequestWins ==
    /\ [](\A req \in network : req.id = nextReq - 1)
    /\ [][(lastOp'.op = "json" /\ lastOp'.caught = NoError) =>
              /\ \E req \in network :
                     /\ network' = network \ {req}
                     /\ req.id = nextReq' - 1
                     /\ req.url = lastOp'.url
              /\ iconsGridHTML' = DisplayIcons(currentIcons')
         ]_vars

\* the second search, issued after the first one had settled, has just succeeded
\* and its icons are on display
C17_Witness ==
    /\ LastSucceeded
    /\ nextReq = 3
    /\ network = {}
    /\ currentIcons # <<>>
    /\ iconsGridHTML = DisplayIcons(currentIcons)

-----------------------------------------------------------------------------
(* C18 *)

\* in this step performSearch ran with a text that is empty after trimming
BlankDispatchNow == IsDispatch /\ IsBlank(text)

\* C18 as stated: the step in which a search fails, and a dispatch with empty text,
\* leave currentIcons and the results-count label as they were; a failed search
\* leaves the error panel in the grid and a blank dispatch outside a search leaves
\* the idle prompt.
C18_FailureKeepsResults ==
    [][/\ (SearchFailedNow \/ BlankDispatchNow) =>
              /\ currentIcons' = currentIcons
              /\ resultsCount' = resultsCount
       /\ SearchFailedNow => iconsGridHTML'.kind = "error"
       /\ (BlankDispatchNow /\ ~isLoading) => iconsGridHTML'.kind = "prompt"
      ]_vars

-----------------------------------------------------------------------------
(* C19 *)

\* the calls of insertStreamlineIcon that have not ended
Pending(cs) == {c.id : c \in cs}

\* C19: a call ends in the step that shows its toast and in no other: the step in
\* which a call ends shows exactly one toast, that call's, and every toast shown is
\* the toast of the call ending in that step; calls are numbered once, so no call
\* has two toasts. The toast is the success message of the write that has just
\* succeeded, or else an error toast with the message of the error caught.
C19_OneToastPerClick ==
    [][/\ \A id \in Pending(clicks) \ Pending(clicks') :
              \E t \in ShownNow : ShownNow = {t} /\ t.click = id
       /\ \A t \in ShownNow :
              /\ t.click \in Pending(clicks) \ Pending(clicks')
              /\ t.click = lastClick'.click
              /\ \A u \in toasts : u.click # t.click /\ u.id # t.id
              /\ \/ /\ t.kind = "success"
                    /\ lastClick'.op = "write"
                    /\ clipboard' = MultiFormat(lastClick'.svg)
                    /\ t.message = SuccessMessage(lastClick'.name)
                 \/ /\ t.kind = "success"
                    /\ lastClick'.op = "writeText"
                    /\ clipboard' = TextOnly(lastClick'.svg)
                    /\ t.message = FallbackMessage(lastClick'.name)
                 \/ /\ t.kind = "error"
                    /\ lastClick'.thrown # NoError
                    /\ clipboard' = clipboard
                    /\ t.message = lastClick'.thrown.message
       /\ Pending(clicks') \ Pending(clicks) \subseteq {nextClick}
       /\ nextClick' \in {nextClick, nextClick + 1}
       /\ Pending(clicks') \subseteq 1..(nextClick' - 1)
      ]_vars

\* two calls have ended, one with a success toast and one with an error toast, and
\* both toasts are still shown
C19_Witness ==
    /\ clicks = {}
    /\ nextClick = 3
    /\ \E t, u \in toasts :
           /\ toasts = {t, u}
           /\ t.kind = "success"
           /\ u.kind = "error"
           /\ t.click # u.click

-----------------------------------------------------------------------------
(* C20 *)

\* the toasts this step removes
RemovedNow == {t \in toasts : t.id \notin {u.id : u \in toasts'}}

\* C20: a toast is shown with its timer at zero and is never shown for longer than
\* 3000 ms (success) or 4000 ms (error); it is removed by its own timer exactly then,
\* a success toast together with its style element; while a success toast is shown
\* its style element is in the head, and no other style element is; removing a
\* toast leaves every other toast and every other style element in place.
C20_ToastsRemoveThemselves ==
    /\ [](/\ \A t \in toasts :
                 t.age <= (IF t.kind = "success" THEN 3000 ELSE 4000)
          /\ styles = {t.id : t \in {u \in toasts : u.kind = "success"}})
    /\ [][/\ \A t \in ShownNow : t.age = 0
          /\ \A t \in RemovedNow :
                 /\ lastClick'.op = "expire"
                 /\ lastClick'.toast = t.id
                 /\ t.age = (IF t.kind = "success" THEN 3000 ELSE 4000)
                 /\ toasts' = toasts \ {t}
                 /\ styles' = styles \ {t.id}
         ]_vars

\* a success toast has just been removed after 3000 ms, its style element with it,
\* while a toast shown later is still on the page
C20_Witness ==
    /\ lastClick.op = "expire"
    /\ lastClick.kind = "success"
    /\ lastClick.age = 3000
    /\ lastClick.toast \notin styles
    /\ \E u \in toasts : u.id > lastClick.toast /\ u.age > 0 /\ u.remaining > 0

-----------------------------------------------------------------------------
(* C21 *)

\* the path of a request URL: what precedes the query string
PathOf(url) ==
    IF \E i \in 1..Len(url) : url[i] = "?"
    THEN SubSeq(url, 1, (CHOOSE i \in 1..Len(url) :
                             url[i] = "?" /\ \A k \in 1..(i - 1) : url[k] # "?") - 1)
    ELSE url

\* the request is for an SVG download route
DownloadRoute(url) == Includes(PathOf(url), <<"/download/svg">>)

\* the headers and query parameters by which a credential would be sent
CredentialNames == {"x-api-key", "authorization", "api_key", "apikey"}

\* the fetch carries no credential
NoCredential(request) ==
    /\ \A h \in request.headers : h.name \notin CredentialNames
    /\ \A i \in 1..Len(request.url.search) :
           request.url.search[i].key \notin CredentialNames

\* C21 as stated: every request the proxy has forwarded carries exactly one
\* x-api-key header, holding the key of the environment, and exactly one accept
\* header: image/svg+xml when the path of the request is a download route,
\* application/json for every other route, whatever headers the request arrived with;
\* and no search or download the task pane has in flight carries a credential.
C21_ProxyHeaders ==
    /\ proxied # NoProxy =>
           /\ {h \in proxied.proxyReq.headers : h.name = "x-api-key"} =
                  {[name |-> "x-api-key", value |-> proxied.apiKey]}
           /\ {h \in proxied.proxyReq.headers : h.name = "accept"} =
                  {[name |-> "accept",
                    value |-> IF DownloadRoute(proxied.req.url)
                              THEN "image/svg+xml" ELSE "application/json"]}
    /\ \A req \in network : NoCredential(req)
    /\ \A c \in clicks : NoCredential(c.request)

====
